---------------------------- MODULE Spec2Model ----------------------------
(***************************************************************************)
(* Model of the order text interpreter of src/order_parser.py.             *)
(*                                                                         *)
(* OrderParser.parse_order tries the AI-assisted strategy                  *)
(* (_parse_with_claude, which ends in _validate_and_process) and falls     *)
(* back to the line-oriented regex strategy (_parse_with_regex, which      *)
(* calls _extract_items_regex on every line).                              *)
(*                                                                         *)
(* Text is modelled at the character level: a Python str is a sequence of  *)
(* one-character strings.  Regular expressions are transcribed as pattern  *)
(* trees and run by a backtracking matcher with the priorities of          *)
(* Python's re module (ordered alternation, greedy and lazy repetition).   *)
(***************************************************************************)
EXTENDS Integers, Sequences, FiniteSets, TLC

(***************************************************************************)
(* Characters and str methods                                              *)
(***************************************************************************)
LowerSeq == <<"a","b","c","d","e","f","g","h","i","j","k","l","m",
              "n","o","p","q","r","s","t","u","v","w","x","y","z">>
UpperSeq == <<"A","B","C","D","E","F","G","H","I","J","K","L","M",
              "N","O","P","Q","R","S","T","U","V","W","X","Y","Z">>
DigitSeq == <<"0","1","2","3","4","5","6","7","8","9">>

Range(f) == {f[i] : i \in DOMAIN f}
LowerLetters == Range(LowerSeq)
UpperLetters == Range(UpperSeq)
Digits == Range(DigitSeq)
\* str.isspace / the class \s, on the characters the model's texts use
Spaces == {" ", "\t"}
\* "U+00F1" stands for the single character n-tilde, "U+20B1" for the peso sign
OtherLetters == {"U+00F1"}

IsLetter(c) == c \in LowerLetters \cup UpperLetters \cup OtherLetters
\* the class \w of a str pattern: alphanumerics and the underscore
IsWordChar(c) == IsLetter(c) \/ c \in Digits \/ c = "_"

Min(S) == CHOOSE x \in S : \A y \in S : x <= y
Max(S) == CHOOSE x \in S : \A y \in S : x >= y

LowerChar(c) ==
    IF c \in UpperLetters
    THEN LowerSeq[CHOOSE i \in DOMAIN UpperSeq : UpperSeq[i] = c]
    ELSE c
UpperChar(c) ==
    IF c \in LowerLetters
    THEN UpperSeq[CHOOSE i \in DOMAIN LowerSeq : LowerSeq[i] = c]
    ELSE c

\* str.lower()
Lower(s) == [i \in 1..Len(s) |-> LowerChar(s[i])]

\* str.title(): a cased character is upper-cased when it follows an uncased
\* one (or starts the string) and lower-cased otherwise
Title(s) ==
    [i \in 1..Len(s) |->
        IF i > 1 /\ IsLetter(s[i-1]) THEN LowerChar(s[i]) ELSE UpperChar(s[i])]

\* str.strip()
Strip(s) ==
    LET ink == {i \in 1..Len(s) : s[i] \notin Spaces}
    IN  IF ink = {} THEN <<>> ELSE SubSeq(s, Min(ink), Max(ink))

\* len(str.split()): the number of maximal runs of non-whitespace
WordCount(s) ==
    Cardinality({i \in 1..Len(s) :
                    s[i] \notin Spaces /\ (i = 1 \/ s[i-1] \in Spaces)})

\* s[i:].startswith(w), with i counted from 1
StartsAt(s, w, i) ==
    /\ i >= 1
    /\ i + Len(w) - 1 <= Len(s)
    /\ \A j \in 1..Len(w) : s[i + j - 1] = w[j]

\* w in s
Contains(s, w) == \E i \in 1..(Len(s) - Len(w) + 1) : StartsAt(s, w, i)

\* any(w in s for w in ws)
ContainsAny(s, ws) == \E k \in DOMAIN ws : Contains(s, ws[k])

DigitVal(c) == (CHOOSE i \in DOMAIN DigitSeq : DigitSeq[i] = c) - 1

\* int(str) of a run of decimal digits
RECURSIVE IntOf(_)
IntOf(ds) ==
    IF Len(ds) = 0 THEN 0
    ELSE 10 * IntOf(SubSeq(ds, 1, Len(ds) - 1)) + DigitVal(ds[Len(ds)])

(***************************************************************************)
(* Python values that may be None: tagged records                          *)
(***************************************************************************)
None == [t |-> "none"]
Num(n) == [t |-> "num", v |-> n]
\* float('inf')
Inf == [t |-> "inf"]
Str(s) == [t |-> "str", v |-> s]
List(q) == [t |-> "list", v |-> q]

IsNone(x) == x.t = "none"

\* bool(x)
Truthy(x) ==
    CASE x.t = "none" -> FALSE
      [] x.t = "num"  -> x.v # 0
      [] x.t = "inf"  -> TRUE
      [] x.t = "str"  -> Len(x.v) > 0
      [] x.t = "list" -> Len(x.v) > 0

\* The largest decimal exponent of a finite double (sys.float_info.max_10_exp)
DBL_MAX_10_EXP == 308

\* float(str) of a run of decimal digits: a run with more significant digits
\* than a finite double can have is inf.  (Runs of exactly DBL_MAX_10_EXP + 1
\* digits straddle the largest double and runs beyond 2^53 round; the digit
\* runs of the model's texts are short, or have HugeDigits digits.)
FloatOf(ds) ==
    LET sig == {i \in 1..Len(ds) : ds[i] # "0"}
        nsig == IF sig = {} THEN 0 ELSE Len(ds) - Min(sig) + 1
    IN  IF nsig > DBL_MAX_10_EXP + 1 THEN Inf ELSE Num(IntOf(ds))

(***************************************************************************)
(* Regular expressions.  A pattern is a sequence of nodes:                 *)
(*   Lit(w)            the literal text w                                  *)
(*   Rep(cls,lo,hi,g)  lo..hi characters of class cls (hi = -1: no limit), *)
(*                     greedy (g) or lazy                                  *)
(*   Alt(<<p1,..>>)    ordered alternation p1|p2|..                        *)
(*   Opt(p)            (?:p)?  = Alt(<<p, <<>>>>)                          *)
(*   Grp(n, p)         capture group number n                              *)
(*   Bnd               \b                                                  *)
(***************************************************************************)
Lit(w) == [k |-> "lit", w |-> w]
Rep(cls, lo, hi, g) == [k |-> "rep", cls |-> cls, lo |-> lo, hi |-> hi, greedy |-> g]
Alt(ps) == [k |-> "alt", alts |-> ps]
Opt(p) == Alt(<<p, <<>>>>)
Grp(n, p) == [k |-> "grp", n |-> n, body |-> p]
Bnd == [k |-> "bnd"]
CapStart(n) == [k |-> "cs", n |-> n]
CapEnd(n) == [k |-> "ce", n |-> n]

InClass(c, cls) ==
    CASE cls = "digit"    -> c \in Digits                      \* \d
      [] cls = "space"    -> c \in Spaces                      \* \s
      [] cls = "any"      -> c # "\n"                          \* .
      [] cls = "az_space" -> c \in LowerLetters \cup Spaces    \* [a-z\s]

\* the length of the maximal run of class cls that starts at position i
RunLen(s, i, cls) ==
    (CHOOSE j \in i..(Len(s) + 1) :
        /\ j = Len(s) + 1 \/ ~InClass(s[j], cls)
        /\ \A k \in i..(j - 1) : InClass(s[k], cls)) - i

\* the largest count a repetition with upper limit hi (-1: none) may take
\* of a run
Top(hi, run) == IF hi >= 0 /\ hi < run THEN hi ELSE run

NoMatch == [ok |-> FALSE, end |-> 0, caps |-> <<>>]

\* Backtracking over alternatives [n, r]: r is the result of the rest of the
\* match under alternative n, and the matcher keeps the first that matches
\* in the order of n
First(tries) ==
    LET good == {e \in tries : e.r.ok}
    IN  IF good = {} THEN NoMatch
        ELSE (CHOOSE e \in good : \A f \in good : f.n >= e.n).r

\* The match of pattern p at position i of s that a backtracking matcher
\* finds first, with the capture spans <<start, end>> (end exclusive).
RECURSIVE Match(_, _, _, _)
Match(p, s, i, caps) ==
    IF Len(p) = 0 THEN [ok |-> TRUE, end |-> i, caps |-> caps]
    ELSE
    LET h == Head(p)
        t == Tail(p)
    IN  CASE h.k = "lit" ->
               IF StartsAt(s, h.w, i) THEN Match(t, s, i + Len(h.w), caps)
               ELSE NoMatch
          [] h.k = "rep" ->
               \* a greedy repetition tries the longest count first, a lazy
               \* one the shortest
               First({[n |-> IF h.greedy THEN -n ELSE n,
                       r |-> Match(t, s, i + n, caps)] :
                          n \in h.lo..Top(h.hi, RunLen(s, i, h.cls))})
          [] h.k = "alt" ->
               First({[n |-> n, r |-> Match(h.alts[n] \o t, s, i, caps)] :
                          n \in DOMAIN h.alts})
          [] h.k = "grp" ->
               Match(<<CapStart(h.n)>> \o h.body \o <<CapEnd(h.n)>> \o t, s, i, caps)
          [] h.k = "cs" ->
               Match(t, s, i, [caps EXCEPT ![h.n] = <<i, i>>])
          [] h.k = "ce" ->
               Match(t, s, i, [caps EXCEPT ![h.n] = <<caps[h.n][1], i>>])
          [] h.k = "bnd" ->
               LET before == i > 1 /\ i - 1 <= Len(s) /\ IsWordChar(s[i-1])
                   after == i <= Len(s) /\ IsWordChar(s[i])
               IN  IF before # after THEN Match(t, s, i, caps) ELSE NoMatch

\* the text of group n of a match (the empty string when it took no part)
GroupText(s, m, n) == SubSeq(s, m.caps[n][1], m.caps[n][2] - 1)

\* the leftmost of the matches [n, r] that start at the positions n
Leftmost(tries) ==
    LET good == {e \in tries : e.r.ok}
    IN  IF good = {} THEN [ok |-> FALSE, start |-> 0, end |-> 0, caps |-> <<>>]
        ELSE LET e == CHOOSE e \in good : \A f \in good : f.n >= e.n
             IN  [ok |-> TRUE, start |-> e.n, end |-> e.r.end, caps |-> e.r.caps]

\* The leftmost match of p in s that starts at or after position from:
\* [ok, start, end, caps]
SearchFrom(p, ng, s, from) ==
    Leftmost({[n |-> i, r |-> Match(p, s, i, [g \in 1..ng |-> <<1, 1>>])] :
                 i \in from..(Len(s) + 1)})

\* re.search(p, s)
Search(p, ng, s) == SearchFrom(p, ng, s, 1)

\* The non-overlapping matches of p in s, left to right, as re.findall and
\* re.sub scan them: the scan goes on from the end of match m (one further
\* when m is empty)
RECURSIVE Matches(_, _, _, _)
ScanOn(p, ng, s, m) ==
    IF ~m.ok THEN <<>>
    ELSE <<m>> \o Matches(p, ng, s, IF m.end > m.start THEN m.end ELSE m.start + 1)

Matches(p, ng, s, from) == ScanOn(p, ng, s, SearchFrom(p, ng, s, from))

\* s without the characters of the matches ms
Without(s, ms) ==
    LET keep == {i \in 1..Len(s) :
                    ~\E k \in DOMAIN ms : ms[k].start <= i /\ i < ms[k].end}
    IN  [k \in 1..Cardinality(keep) |->
            s[CHOOSE i \in keep : Cardinality({j \in keep : j <= i}) = k]]

\* re.sub(p, '', s)
RemoveAll(p, s) == Without(s, Matches(p, 0, s, 1))


\* prices of self.products
PouchPrice == 150
TubPrice == 290
\* the digits that follow "09" in a phone number
PhoneTail == 9
\* the number of digits of the long digit run of HugeDiscountLine
HugeDigits == 310
\* the raw lines of a bounded message, and the items of an oracle's list
MaxLines == 3
MaxItems == 2
\* the insert_order calls that run interleaved, and the orders already in
\* the first rows of the worksheet
MaxInserts == 2
MaxPrefilled == 1

(***************************************************************************)
(* The tables of OrderParser.__init__                                      *)
(***************************************************************************)
\* self.products: product code -> price ('name' and 'size' are not read by
\* the parser)
products ==
    [code \in {"P-CHZ", "P-SC", "P-BBQ", "P-OG", "2L-CHZ", "2L-SC", "2L-BBQ", "2L-OG"} |->
        IF code \in {"P-CHZ", "P-SC", "P-BBQ", "P-OG"} THEN PouchPrice ELSE TubPrice]

\* self.flavor_aliases, in the dict's insertion order
flavor_aliases ==
    << <<<<"c","h","e","e","s","e">>, "CHZ">>,
       <<<<"c","h","e","e","s","y">>, "CHZ">>,
       <<<<"k","e","s","o">>, "CHZ">>,
       <<<<"s","o","u","r"," ","c","r","e","a","m">>, "SC">>,
       <<<<"s","o","u","r">>, "SC">>,
       <<<<"s","c">>, "SC">>,
       <<<<"b","b","q">>, "BBQ">>,
       <<<<"b","a","r","b","e","q","u","e">>, "BBQ">>,
       <<<<"b","a","r","b","e","c","u","e">>, "BBQ">>,
       <<<<"o","r","i","g","i","n","a","l">>, "OG">>,
       <<<<"p","l","a","i","n">>, "OG">>,
       <<<<"o","r","i","g">>, "OG">> >>

\* self.size_indicators, in the dict's insertion order
size_indicators ==
    << <<<<"p","o","u","c","h">>, "P">>,
       <<<<"m","a","l","i","i","t">>, "P">>,
       <<<<"1","0","0","g">>, "P">>,
       <<<<"1","0","0"," ","g","r","a","m","s">>, "P">>,
       <<<<"t","u","b">>, "2L">>,
       <<<<"m","a","l","a","k","i">>, "2L">>,
       <<<<"2","0","0","g">>, "2L">>,
       <<<<"2","0","0"," ","g","r","a","m","s">>, "2L">> >>

\* the keys of self.filipino_numbers, in insertion order
FilipinoNumberWords ==
    << <<"i","s","a">>,
       <<"i","s","a","n","g">>,
       <<"d","a","l","a","w","a">>,
       <<"t","a","t","l","o">>,
       <<"a","p","a","t">>,
       <<"l","i","m","a">>,
       <<"a","n","i","m">>,
       <<"p","i","t","o">>,
       <<"w","a","l","o">>,
       <<"s","i","y","a","m">>,
       <<"s","a","m","p","u">>,
       <<"s","a","m","p","u","n","g">> >>

\* the number words of the first item pattern
EnglishNumberWords ==
    << <<"o","n","e">>,
       <<"t","w","o">>,
       <<"t","h","r","e","e">>,
       <<"f","o","u","r">>,
       <<"f","i","v","e">>,
       <<"s","i","x">>,
       <<"s","e","v","e","n">>,
       <<"e","i","g","h","t">>,
       <<"n","i","n","e">>,
       <<"t","e","n">> >>

\* text_to_num of _extract_items_regex, after update(self.filipino_numbers)
text_to_num ==
    << <<<<"o","n","e">>, 1>>,
       <<<<"t","w","o">>, 2>>,
       <<<<"t","h","r","e","e">>, 3>>,
       <<<<"f","o","u","r">>, 4>>,
       <<<<"f","i","v","e">>, 5>>,
       <<<<"s","i","x">>, 6>>,
       <<<<"s","e","v","e","n">>, 7>>,
       <<<<"e","i","g","h","t">>, 8>>,
       <<<<"n","i","n","e">>, 9>>,
       <<<<"t","e","n">>, 10>>,
       <<<<"i","s","a">>, 1>>,
       <<<<"i","s","a","n","g">>, 1>>,
       <<<<"d","a","l","a","w","a">>, 2>>,
       <<<<"t","a","t","l","o">>, 3>>,
       <<<<"a","p","a","t">>, 4>>,
       <<<<"l","i","m","a">>, 5>>,
       <<<<"a","n","i","m">>, 6>>,
       <<<<"p","i","t","o">>, 7>>,
       <<<<"w","a","l","o">>, 8>>,
       <<<<"s","i","y","a","m">>, 9>>,
       <<<<"s","a","m","p","u">>, 10>>,
       <<<<"s","a","m","p","u","n","g">>, 10>> >>

\* the size alternatives of the first item pattern
SizeWords1 ==
    << <<"t","u","b">>,
       <<"p","o","u","c","h">>,
       <<"m","a","l","i","i","t">>,
       <<"m","a","l","a","k","i">>,
       <<"1","0","0","g">>,
       <<"2","0","0","g">> >>

\* the size alternatives of the second item pattern
SizeWords2 ==
    << <<"p","o","u","c","h">>,
       <<"t","u","b">>,
       <<"m","a","l","i","i","t">>,
       <<"m","a","l","a","k","i">>,
       <<"1","0","0","g">>,
       <<"2","0","0","g">> >>

(***************************************************************************)
(* The keyword lists and patterns of _parse_with_regex                     *)
(***************************************************************************)
\* the keywords that keep a line from being taken as the name
NameStopWords ==
    << <<"p","o","u","c","h">>,
       <<"t","u","b">>,
       <<"g","c","a","s","h">>,
       <<"b","p","i">>,
       <<"m","a","y","a">> >>

\* payment method keyword groups, in the order of the if/elif chain
GcashWords ==
    << <<"g","c","a","s","h">>,
       <<"g","-","c","a","s","h">>,
       <<"g"," ","c","a","s","h">> >>

BpiWords ==
    << <<"b","p","i">> >>

MayaWords ==
    << <<"m","a","y","a">>,
       <<"p","a","y","m","a","y","a">>,
       <<"p","a","y"," ","m","a","y","a">> >>

CashWords ==
    << <<"c","a","s","h">>,
       <<"c","o","d">>,
       <<"c","a","s","h"," ","o","n"," ","d","e","l","i","v","e","r","y">> >>

BdoWords ==
    << <<"b","d","o">> >>

\* payment_status_keywords
PaymentStatusKeywords ==
    << <<"p","a","i","d">>,
       <<"b","a","y","a","d"," ","n","a">>,
       <<"n","a","b","a","y","a","d"," ","n","a">>,
       <<"s","e","t","t","l","e","d">>,
       <<"p","a","y","m","e","n","t"," ","d","o","n","e">>,
       <<"p","a","i","d"," ","a","l","r","e","a","d","y">>,
       <<"p","a","i","d"," ","v","i","a">>,
       <<"t","r","a","n","s","f","e","r","r","e","d"," ","a","l","r","e","a","d","y">>,
       <<"p","a","y","m","e","n","t"," ","r","e","c","e","i","v","e","d">>,
       <<"r","e","c","e","i","v","e","d"," ","p","a","y","m","e","n","t">>,
       <<"c","o","n","f","i","r","m","e","d"," ","p","a","y","m","e","n","t">>,
       <<"p","a","i","d"," ","c","a","s","h">>,
       <<"c","a","s","h"," ","p","a","i","d">>,
       <<"t","r","a","n","s","f","e","r","r","e","d">>,
       <<"s","e","n","t"," ","p","a","y","m","e","n","t">> >>

\* location keyword groups
QuezonWords ==
    << <<"q","c">>,
       <<"q","u","e","z","o","n"," ","c","i","t","y">>,
       <<"q","u","e","z","o","n">> >>

ParanaqueWords ==
    << <<"p","a","r","a","n","a","q","u","e">>,
       <<"p","a","r","a","U+00F1","a","q","u","e">>,
       <<"p","a","r","a","n","a","U+00F1","a","q","u","e">> >>

\* the alternatives of the shipping fee pattern
ShippingWords ==
    << <<"s","f">>,
       <<"s","h","i","p","p","i","n","g">>,
       <<"d","e","l","i","v","e","r","y">>,
       <<"p","a","d","a","l","a">>,
       <<"h","a","t","i","d">> >>

\* the alternatives of the two discount patterns
DiscountWords ==
    << <<"d","i","s","c","o","u","n","t">>,
       <<"o","f","f">>,
       <<"b","a","w","a","s">> >>

\* the alternatives w1|w2|.. of a list of literal words
Words(ws) == Alt([k \in DOMAIN ws |-> <<Lit(ws[k])>>])

DigitRun == Rep("digit", 1, -1, TRUE)       \* \d+
Space0 == Rep("space", 0, -1, TRUE)         \* \s*
Space1 == Rep("space", 1, -1, TRUE)         \* \s+
FlavorRun == Rep("az_space", 1, -1, TRUE)   \* [a-z\s]+
LazyAny == Rep("any", 0, -1, FALSE)         \* .*?

\* r'(?:sf|shipping|delivery|padala|hatid).*?(\d+)'
SfPattern == <<Words(ShippingWords), LazyAny, Grp(1, <<DigitRun>>)>>

\* r'(?:discount|off|bawas).*?(\d+)(?:\s*(?:pesos?|php|U+20B1))'
PesoDiscountPattern ==
    <<Words(DiscountWords), LazyAny, Grp(1, <<DigitRun>>), Space0,
      Alt(<< <<Lit(<<"p","e","s","o">>), Opt(<<Lit(<<"s">>)>>)>>,
             <<Lit(<<"p","h","p">>)>>,
             <<Lit(<<"U+20B1">>)>> >>)>>

\* r'(?:discount|off|bawas).*?(\d+)(?:%)?'
DiscountPattern ==
    <<Words(DiscountWords), LazyAny, Grp(1, <<DigitRun>>), Opt(<<Lit(<<"%">>)>>)>>

\* r'\b09\d{9}\b'
PhonePattern == <<Bnd, Lit(<<"0","9">>), Rep("digit", PhoneTail, PhoneTail, TRUE), Bnd>>

\* patterns[0]:
\* r'(one|..|ten|\d+)\s+(tub|pouch|maliit|malaki|100g|200g)\s+(?:of\s+)?([a-z\s]+)'
ItemPattern1 ==
    <<Grp(1, <<Alt([k \in DOMAIN EnglishNumberWords |-> <<Lit(EnglishNumberWords[k])>>]
                   \o << <<DigitRun>> >>)>>),
      Space1,
      Grp(2, <<Words(SizeWords1)>>),
      Space1,
      Opt(<<Lit(<<"o","f">>), Space1>>),
      Grp(3, <<FlavorRun>>)>>

\* patterns[1]:
\* r'(\d+|isa|isang|..|sampung)\s*(?:x\s*)?(?:(pouch|tub|maliit|malaki|100g|200g)\s+)?([a-z\s]+)'
ItemPattern2 ==
    <<Grp(1, <<Alt(<< <<DigitRun>> >>
                   \o [k \in DOMAIN FilipinoNumberWords |-> <<Lit(FilipinoNumberWords[k])>>])>>),
      Space0,
      Opt(<<Lit(<<"x">>), Space0>>),
      Opt(<<Grp(2, <<Words(SizeWords2)>>), Space1>>),
      Grp(3, <<FlavorRun>>)>>

(***************************************************************************)
(* OrderParser._extract_items_regex                                        *)
(***************************************************************************)
\* str.isdigit()
IsDigitStr(q) == Len(q) > 0 /\ \A i \in 1..Len(q) : q[i] \in Digits

\* the candidate item of one findall match (quantity_str, size_hint,
\* flavor_text): ok is FALSE when the loop body reaches `continue` or the
\* composed code is not in self.products
ItemOfMatch(quantity_str, size_hint, flavor_text) ==
    LET quantity ==
            IF IsDigitStr(quantity_str) THEN IntOf(quantity_str)
            ELSE LET hit == {k \in DOMAIN text_to_num : text_to_num[k][1] = quantity_str}
                 IN  IF hit = {} THEN 1 ELSE text_to_num[Min(hit)][2]
        fl == {k \in DOMAIN flavor_aliases : Contains(flavor_text, flavor_aliases[k][1])}
        sz == {k \in DOMAIN size_indicators : Contains(size_hint, size_indicators[k][1])}
        size_prefix ==
            IF Len(size_hint) > 0 /\ sz # {} THEN size_indicators[Min(sz)][2] ELSE "P"
        product_code == size_prefix \o "-" \o flavor_aliases[Min(fl)][2]
    IN  IF fl = {} THEN [ok |-> FALSE]
        ELSE IF product_code \notin DOMAIN products THEN [ok |-> FALSE]
        ELSE [ok |-> TRUE,
              item |-> [product_code |-> product_code, quantity |-> quantity]]

\* the candidate item of the match m of a pattern in line_lower
ItemOfGroups(line_lower, m) ==
    ItemOfMatch(GroupText(line_lower, m, 1),
                GroupText(line_lower, m, 2),
                GroupText(line_lower, m, 3))

\* the items that the candidates of one pattern append: the first that
\* gives a product, because of the `break`
FirstProduct(cands) ==
    LET good == {k \in DOMAIN cands : cands[k].ok}
    IN  IF good = {} THEN <<>> ELSE <<cands[Min(good)].item>>

ItemsOfMatches(line_lower, ms) ==
    FirstProduct([k \in DOMAIN ms |-> ItemOfGroups(line_lower, ms[k])])

\* One turn of `for pattern in patterns`
ItemsOfPattern(p, line_lower) ==
    ItemsOfMatches(line_lower, Matches(p, 3, line_lower, 1))

\* the loop over the two patterns, on the line without phone numbers
ItemsOfLine(line_lower) ==
    ItemsOfPattern(ItemPattern1, line_lower) \o ItemsOfPattern(ItemPattern2, line_lower)

ExtractItemsRegex(line) == ItemsOfLine(RemoveAll(PhonePattern, Lower(line)))

(***************************************************************************)
(* OrderParser._parse_with_regex                                           *)
(***************************************************************************)
\* confidence is kept as a string: the parser never computes with it
InitialResult ==
    [customer_name |-> None,
     payment_method |-> None,
     customer_location |-> None,
     payment_status |-> Str("Unpaid"),
     discount_percentage |-> None,
     discount_amount |-> None,
     shipping_fee |-> None,
     items |-> List(<<>>),
     confidence |-> Str("0.7"),
     notes |-> None]

\* int(m.group(1)) when the search found the match m, None otherwise
GroupInt(line_lower, m) ==
    IF m.ok THEN Num(IntOf(GroupText(line_lower, m, 1))) ELSE None

\* float(m.group(1)) in the elif branch of the discount statement
GroupFloat(line_lower, peso_discount_match, m) ==
    IF ~peso_discount_match.ok /\ m.ok
    THEN FloatOf(GroupText(line_lower, m, 1))
    ELSE None

\* What the body of `for line in lines` computes from the line alone: the
\* conditions and right-hand sides of its statements (None: no assignment)
LineBody(line, line_lower, sf_match, peso_discount_match, discount_match) ==
    [name_like |->
        /\ WordCount(line) <= 3
        /\ ~ContainsAny(line_lower, NameStopWords),
     title |-> Title(line),
     payment_method |->
        IF ContainsAny(line_lower, GcashWords) THEN Str("Gcash")
        ELSE IF ContainsAny(line_lower, BpiWords) THEN Str("BPI")
        ELSE IF ContainsAny(line_lower, MayaWords) THEN Str("Maya")
        ELSE IF ContainsAny(line_lower, CashWords) THEN Str("Cash")
        ELSE IF ContainsAny(line_lower, BdoWords) THEN Str("BDO")
        ELSE None,
     paid |-> ContainsAny(line_lower, PaymentStatusKeywords),
     customer_location |->
        IF ContainsAny(line_lower, QuezonWords) THEN Str("Quezon City")
        ELSE IF ContainsAny(line_lower, ParanaqueWords) THEN Str("Paranaque")
        ELSE None,
     shipping_fee |-> GroupInt(line_lower, sf_match),
     discount_amount |-> GroupInt(line_lower, peso_discount_match),
     discount_percentage |-> GroupFloat(line_lower, peso_discount_match, discount_match),
     items |-> ExtractItemsRegex(line)]

\* the three searches of the loop body on line.lower()
LineSearches(line, line_lower) ==
    LineBody(line, line_lower,
             Search(SfPattern, 1, line_lower),
             Search(PesoDiscountPattern, 1, line_lower),
             Search(DiscountPattern, 1, line_lower))

LineFacts(line) == LineSearches(line, Lower(line))

\* LineStep as it would be without the `continue` of the name branch: the
\* line that gives the name goes on through the rest of the loop body
LineStepWithoutContinue(result, f) ==
    [result EXCEPT
        !.customer_name =
            IF ~Truthy(@) /\ f.name_like THEN Str(f.title) ELSE @,
        !.payment_method = IF IsNone(f.payment_method) THEN @ ELSE f.payment_method,
        !.payment_status = IF f.paid THEN Str("Paid") ELSE @,
        !.customer_location =
            IF IsNone(f.customer_location) THEN @ ELSE f.customer_location,
        !.shipping_fee = IF IsNone(f.shipping_fee) THEN @ ELSE f.shipping_fee,
        !.discount_amount = IF IsNone(f.discount_amount) THEN @ ELSE f.discount_amount,
        !.discount_percentage =
            IF IsNone(f.discount_percentage) THEN @ ELSE f.discount_percentage,
        !.items = List(@.v \o f.items)]

\* One turn of `for line in lines` on the result so far
LineStep(result, f) ==
    IF ~Truthy(result.customer_name) /\ f.name_like
    THEN [result EXCEPT !.customer_name = Str(f.title)]      \* then `continue`
    ELSE [result EXCEPT
            !.payment_method = IF IsNone(f.payment_method) THEN @ ELSE f.payment_method,
            !.payment_status = IF f.paid THEN Str("Paid") ELSE @,
            !.customer_location =
                IF IsNone(f.customer_location) THEN @ ELSE f.customer_location,
            !.shipping_fee = IF IsNone(f.shipping_fee) THEN @ ELSE f.shipping_fee,
            !.discount_amount = IF IsNone(f.discount_amount) THEN @ ELSE f.discount_amount,
            !.discount_percentage =
                IF IsNone(f.discount_percentage) THEN @ ELSE f.discount_percentage,
            !.items = List(@.v \o f.items)]

\* sum(self.products[item["product_code"]]["price"] * item["quantity"] ...)
\* over the items whose index is in idx
RECURSIVE SubtotalOf(_, _)
SubtotalOf(items, idx) ==
    IF idx = {} THEN 0
    ELSE LET i == Max(idx)
         IN  SubtotalOf(items, idx \ {i})
               + products[items[i].product_code] * items[i].quantity

\* int(x / 100) for an integer x: int() truncates toward zero
TruncPercent(x) == IF x >= 0 THEN x \div 100 ELSE -((-x) \div 100)

\* int(subtotal * (discount_percentage / 100)): raises OverflowError (or
\* ValueError, for 0 * inf) when the percentage is inf.  The arithmetic is
\* double precision; for the percentages of the model (0 and 10) and its
\* subtotals the product is the exact quotient.
DiscountOf(subtotal, percentage) ==
    IF percentage.t = "inf" THEN [raised |-> TRUE, value |-> None]
    ELSE [raised |-> FALSE, value |-> Num(TruncPercent(subtotal * percentage.v))]

\* result['discount_amount'] = <the discount d>, unless computing d raised
WithDiscount(result, d) ==
    IF d.raised THEN [raised |-> TRUE, result |-> result]
    ELSE [raised |-> FALSE, result |-> [result EXCEPT !.discount_amount = d.value]]

\* The statements after the loop: [raised, result]
RegexFinish(result) ==
    IF /\ Truthy(result.discount_percentage)
       /\ ~Truthy(result.discount_amount)
       /\ Truthy(result.items)
    THEN WithDiscount(result,
                      DiscountOf(SubtotalOf(result.items.v, DOMAIN result.items.v),
                                 result.discount_percentage))
    ELSE [raised |-> FALSE, result |-> result]

(***************************************************************************)
(* Messages.  A message is the sequence of its raw lines (the pieces       *)
(* between "\n"), each named by its index in RawLines.                     *)
(***************************************************************************)
\* the lines every bounded message is built from
CoreLines ==
    << <<"M","a","r","i","a"," ","S","a","n","t","o","s">>,
       <<"2"," ","p","o","u","c","h"," ","c","h","e","e","s","e">>,
       <<"0"," ","p","o","u","c","h"," ","c","h","e","e","s","e">>,
       <<"d","i","s","c","o","u","n","t"," ","1","0","%">>,
       <<"d","i","s","c","o","u","n","t"," ","5","0"," ","p","e","s","o","s">>,
       <<"s","f"," ","6","0">>,
       <<"s","f"," ","8","0">>,
       <<"g","c","a","s","h">>,
       <<" "," ">>,
       <<" ","p","a","i","d"," ","c","a","s","h"," ">>,
       <<"2"," ","c","h","e","e","s","e"," ","3"," ","b","b","q">> >>

\* "discount " followed by HugeDigits nines
HugeDiscountLine ==
    <<"d","i","s","c","o","u","n","t"," ">> \o [i \in 1..HugeDigits |-> "9"]

\* lines that only the scenario messages use
ScenarioLines ==
    << <<"2"," ","t","u","b"," ","c","h","e","e","s","e">>,
       <<"q","c">>,
       <<"d","a","l","a","w","a","n","g"," ","p","o","u","c","h"," ","n","g"," ","k","e","s","o">>,
       <<"c","a","l","l"," ","0","9","1","7","1","2","3","4","5","6","7">>,
       HugeDiscountLine >>

RawLines == CoreLines \o ScenarioLines

\* line.strip() of every raw line, and the facts of every stripped line
Stripped == [id \in DOMAIN RawLines |-> Strip(RawLines[id])]
Facts == [id \in DOMAIN RawLines |-> LineFacts(Stripped[id])]

\* [line.strip() for line in message.split('\n') if line.strip()]
LinesOf(message) == SelectSeq(message, LAMBDA id : Len(Stripped[id]) > 0)

\* _parse_with_regex as a whole: the loop, then the statements after it
RECURSIVE RegexLoop(_, _)
RegexLoop(lines, n) ==
    IF n = 0 THEN InitialResult ELSE LineStep(RegexLoop(lines, n - 1), Facts[lines[n]])

ParseWithRegex(message) ==
    LET lines == LinesOf(message) IN RegexFinish(RegexLoop(lines, Len(lines)))

(***************************************************************************)
(* OrderParser._validate_and_process                                       *)
(*                                                                         *)
(* A dict is a function from its keys to tagged values; any other decoded  *)
(* JSON value is a tagged value itself.                                    *)
(***************************************************************************)
IsDict(x) == "t" \notin DOMAIN x

\* dict.get(k)
Get(d, k) == IF k \in DOMAIN d THEN d[k] ELSE None

\* d[k] = v
Put(d, k, v) == [x \in (DOMAIN d) \cup {k} |-> IF x = k THEN v ELSE d[x]]

\* item["product_code"] in self.products and item["quantity"] >= 1
ValidItem(item) == item.product_code \in DOMAIN products /\ item.quantity >= 1

\* The function's statements in source order, each on the dict that the
\* statements before it left.  raised: an exception leaves the function (a
\* value of the wrong type is used), and the caller's `except Exception`
\* takes it.

\* the loop over result.get("items", []) that keeps the valid items
FilterItems(result) ==
    LET its == IF "items" \in DOMAIN result THEN result["items"] ELSE List(<<>>)
    IN  IF its.t # "list"
        THEN [raised |-> TRUE, result |-> result]                      \* TypeError
        ELSE [raised |-> FALSE,
              result |-> Put(result, "items", List(SelectSeq(its.v, ValidItem)))]

\* `if result.get("discount_amount") and result.get("discount_percentage")`
ClearPercentage(result) ==
    FilterItems(IF /\ Truthy(Get(result, "discount_amount"))
                   /\ Truthy(Get(result, "discount_percentage"))
                THEN Put(result, "discount_percentage", None)
                ELSE result)

\* result["discount_amount"] = int(subtotal * (pct / 100))
StoreDiscount(result, d) ==
    IF d.raised THEN [raised |-> TRUE, result |-> result]
    ELSE ClearPercentage(Put(result, "discount_amount", d.value))

\* the subtotal over the items whose product code is known, and the discount
ComputeDiscount(result, pct, items) ==
    IF items.t # "list" \/ pct.t # "num"
    THEN [raised |-> TRUE, result |-> result]                          \* TypeError
    ELSE StoreDiscount(result,
            DiscountOf(SubtotalOf(items.v,
                                  {i \in DOMAIN items.v :
                                      items.v[i].product_code \in DOMAIN products}),
                       pct))

\* `if (discount_percentage and not discount_amount and items)`
DiscountStep(result) ==
    IF /\ Truthy(Get(result, "discount_percentage"))
       /\ ~Truthy(Get(result, "discount_amount"))
       /\ Truthy(Get(result, "items"))
    THEN ComputeDiscount(result, Get(result, "discount_percentage"), Get(result, "items"))
    ELSE ClearPercentage(result)

\* `if result.get("customer_name"): ... .title()`
NameStep(result, name) ==
    IF ~Truthy(name) THEN DiscountStep(result)
    ELSE IF name.t # "str" THEN [raised |-> TRUE, result |-> result]   \* no .title
    ELSE DiscountStep(Put(result, "customer_name", Str(Title(name.v))))

ValidateAndProcess(result) ==
    IF ~IsDict(result) THEN [raised |-> TRUE, result |-> result]       \* no .get
    ELSE NameStep(result, Get(result, "customer_name"))

(***************************************************************************)
(* The oracle: self.anthropic_client and what messages.create does         *)
(*                                                                         *)
(* A response text is a sequence of tokens: "FENCE", "json", white space,    *)
(* prose, and "{json}", which stands for one JSON document whose decoded   *)
(* value is the oracle's value.                                            *)
(***************************************************************************)
TextSpaces == {" ", "\n"}

\* str.strip() on a token sequence
StripText(text) ==
    LET ink == {i \in 1..Len(text) : text[i] \notin TextSpaces}
    IN  IF ink = {} THEN <<>> ELSE SubSeq(text, Min(ink), Max(ink))

\* the three `if json_text.startswith/endswith` statements, then strip()
StripFences(text) ==
    LET t0 == StripText(text)
        t1 == IF Len(t0) >= 2 /\ t0[1] = "FENCE" /\ t0[2] = "json"
              THEN SubSeq(t0, 3, Len(t0)) ELSE t0
        t2 == IF Len(t1) >= 1 /\ t1[1] = "FENCE" THEN SubSeq(t1, 2, Len(t1)) ELSE t1
        t3 == IF Len(t2) >= 1 /\ t2[Len(t2)] = "FENCE"
              THEN SubSeq(t2, 1, Len(t2) - 1) ELSE t2
    IN  StripText(t3)

\* json.loads: the text decodes when it is exactly one JSON document
Decodes(text) == text = <<"{json}">>

\* The decoded JSON values the oracle may send
JuanCruz == <<"j","u","a","n"," ","c","r","u","z">>
Absent == [t |-> "absent"]

\* a dict without the keys whose choice is Absent
MkDict(f) == [k \in {k \in DOMAIN f : f[k].t # "absent"} |-> f[k]]

ItemChoices ==
    [product_code : {"P-CHZ", "XX"}, quantity : {-1, 0, 1, 2}]

RECURSIVE SeqsUpTo(_, _)
SeqsUpTo(S, n) ==
    IF n = 0 THEN {<<>>}
    ELSE LET shorter == SeqsUpTo(S, n - 1)
         IN  shorter \cup {Append(q, e) : q \in {q \in shorter : Len(q) = n - 1}, e \in S}

\* the fields _validate_and_process reads
ReadChoices ==
    [customer_name : {Absent, None, Str(JuanCruz), Num(5)},
     discount_percentage : {Absent, None, Num(0), Num(10), Str(<<"1","0">>)},
     discount_amount : {None, Num(0), Num(50)},
     items : {Absent, None, Str(<<"x">>)} \cup {List(q) : q \in SeqsUpTo(ItemChoices, MaxItems)}]

\* the fields it passes through, as the prompt asks for them
GoodRest ==
    [payment_method |-> Str("Gcash"),
     customer_location |-> Str("Quezon City"),
     payment_status |-> Str("Paid"),
     shipping_fee |-> Num(60),
     confidence |-> Str("0.9"),
     notes |-> None]

\* ... left out, or with values outside the prompt's enumerations
OtherRests ==
    {[payment_method |-> Absent, customer_location |-> Absent, payment_status |-> Absent,
      shipping_fee |-> Absent, confidence |-> Absent, notes |-> Absent],
     [payment_method |-> Str("Bitcoin"), customer_location |-> Str("Cebu"),
      payment_status |-> Str("Pending"), shipping_fee |-> None,
      confidence |-> Str("0.9"), notes |-> None]}

PlainRead ==
    [customer_name |-> Str(JuanCruz), discount_percentage |-> None,
     discount_amount |-> None,
     items |-> List(<<[product_code |-> "P-CHZ", quantity |-> 2]>>)]

Merge(f, g) == [k \in (DOMAIN f) \cup (DOMAIN g) |-> IF k \in DOMAIN f THEN f[k] ELSE g[k]]

JsonValues ==
    {List(<<>>)}
      \cup {MkDict(Merge(r, GoodRest)) : r \in ReadChoices}
      \cup {MkDict(Merge(PlainRead, o)) : o \in OtherRests}

\* the ways a response wraps its document
TextShapes ==
    {<<"{json}">>,
     <<"FENCE", "json", "\n", "{json}", "\n", "FENCE">>,
     <<"FENCE", "\n", "{json}", "\n", "FENCE">>,
     <<" ", "{json}", "\n">>,
     <<"sorry">>,
     <<"Here", " ", "{json}">>}

GoodValue == MkDict(Merge(PlainRead, GoodRest))

\* An oracle: the client is absent (no API key), or the call raises, or it
\* returns a text
NoClient == [kind |-> "absent"]
Raising == [kind |-> "raises"]
Answer(text, value) == [kind |-> "text", text |-> text, value |-> value]

(***************************************************************************)
(* The inputs of one call of parse_order                                   *)
(***************************************************************************)
CoreIds == 1..Len(CoreLines)

\* the messages of at most MaxLines raw lines over the core lines
BoundedMessages == SeqsUpTo(CoreIds, MaxLines)

\* the scenarios of the specification, and messages with the other lines:
\* "Maria Santos" / "2 tub cheese" / "gcash" / "qc", and so on
ScenarioMessages ==
    {<<1, 12, 8, 13>>, <<1, 14>>, <<1, 2, 15>>, <<1, 2, 16>>, <<16>>, <<1, 16>>}

Messages == BoundedMessages \cup ScenarioMessages

\* oracles paired with every message
MessageOracles ==
    {NoClient, Raising, Answer(<<"sorry">>, GoodValue),
     Answer(<<"FENCE", "json", "\n", "{json}", "\n", "FENCE">>, GoodValue),
     Answer(<<"{json}">>, List(<<>>))}

\* oracles paired with the messages of OracleMessages
OracleMessages == {<<1, 12, 8, 13>>, <<1, 2, 4>>}

TextOracles ==
    {Answer(<<"{json}">>, v) : v \in JsonValues}
      \cup {Answer(t, GoodValue) : t \in TextShapes}

(***************************************************************************)
(* GoogleSheetsClient: the worksheet, find_first_empty_row, insert_order   *)
(***************************************************************************)
FirstRow == 5
FallbackRow == 643

\* self.column_mapping, as the pairs (key, column)
column_mapping ==
    <<<<"order_date", "C">>, <<"customer_name", "D">>, <<"sold_by", "E">>,
      <<"payment_method", "G">>, <<"payment_status", "H">>, <<"notes", "J">>,
      <<"order_type", "K">>, <<"P-CHZ", "N">>, <<"P-SC", "O">>, <<"P-BBQ", "P">>,
      <<"P-OG", "Q">>, <<"2L-CHZ", "T">>, <<"2L-SC", "U">>, <<"2L-BBQ", "V">>,
      <<"2L-OG", "W">>, <<"shipping_fee", "Z">>, <<"discount_amount", "AA">>>>

\* self.column_mapping[key]
ColumnOf(key) ==
    column_mapping[CHOOSE k \in DOMAIN column_mapping : column_mapping[k][1] = key][2]

\* product_code in self.column_mapping
Mapped(key) == \E k \in DOMAIN column_mapping : column_mapping[k][1] = key

\* self.location_to_seller.get(location)
SellerOf(location) ==
    IF location = Str("Quezon City") THEN Str("Ferdie")
    ELSE IF location = Str("Paranaque") THEN Str("Nina")
    ELSE None

\* the columns of the range D5:W2422 that the client writes, of which D and
\* the product columns are read (indices 0, 10..13 and 16..19 of a row)
RangeColumns == {"D", "E", "G", "H", "J", "K", "N", "O", "P", "Q", "T", "U", "V", "W"}
ProductColumns == {"N", "O", "P", "Q", "T", "U", "V", "W"}

\* str(n) of a natural number: what values().get returns for a stored number
RECURSIVE ToStr(_)
ToStr(n) ==
    IF n < 10 THEN <<DigitSeq[n + 1]>> ELSE ToStr(n \div 10) \o <<DigitSeq[(n % 10) + 1]>>

\* the text values().get returns for a cell: '' for a cell never written
CellText(cell) ==
    CASE cell.t = "none" -> <<>>
      [] cell.t = "num"  -> ToStr(cell.v)
      [] OTHER           -> cell.v

\* the worksheet is a function from the rows that hold data to their cells;
\* a cell that was never written is None
BlankRow == [c \in {} |-> None]
RowOf(sheet, r) == IF r \in DOMAIN sheet THEN sheet[r] ELSE BlankRow
Cell(row, c) == IF c \in DOMAIN row THEN row[c] ELSE None

\* row_data of the fetched range, after the padding loop: the text of every
\* cell of D..W
RowData(row) == [c \in RangeColumns |-> CellText(Cell(row, c))]

\* result.get('values', []): the rows from FirstRow to the last row that has
\* a non-empty cell in the range
Values(sheet) ==
    LET used == {r \in DOMAIN sheet :
                    /\ r >= FirstRow
                    /\ \E c \in RangeColumns : Len(RowData(sheet[r])[c]) > 0}
    IN  IF used = {} THEN <<>>
        ELSE [i \in 1..(Max(used) - FirstRow + 1) |-> RowData(RowOf(sheet, FirstRow + i - 1))]

\* customer_name_empty and product_columns_empty of one row_data
IsEmptyRow(row_data) ==
    /\ Len(Strip(row_data["D"])) = 0
    /\ \A c \in ProductColumns :
          Len(Strip(row_data[c])) = 0 \/ Strip(row_data[c]) = <<"0">>

\* the scan of find_first_empty_row over the fetched values
ScanRows(values) ==
    LET empty == {i \in DOMAIN values : IsEmptyRow(values[i])}
    IN  IF empty = {} THEN FirstRow + Len(values) ELSE Min(empty) + FirstRow - 1

\* the quantity insert_order puts in a product column: that of the last
\* item with the code, because updates is a dict
LastItem(items, code) ==
    items[Max({k \in DOMAIN items : items[k].product_code = code})]

\* the updates dictionary of insert_order, column -> value
Updates(parsed_order) ==
    LET items == Get(parsed_order, "items").v
        codes == {items[k].product_code : k \in DOMAIN items}
        plain == {f \in {"notes", "customer_name", "payment_method",
                         "shipping_fee", "discount_amount"} :
                     Truthy(Get(parsed_order, f))}
        seller == SellerOf(Get(parsed_order, "customer_location"))
        cols == {"C", "H", "K"}
                  \cup {ColumnOf(f) : f \in plain}
                  \cup (IF Truthy(seller) THEN {"E"} ELSE {})
                  \cup {ColumnOf(code) : code \in {x \in codes : Mapped(x)}}
    IN  [c \in cols |->
            CASE c = "C" -> Str("today")
              [] c = "H" -> IF "payment_status" \in DOMAIN parsed_order
                            THEN parsed_order.payment_status ELSE Str("Unpaid")
              [] c = "K" -> Str("Reserved")
              [] c = "E" -> seller
              [] \E f \in plain : ColumnOf(f) = c ->
                    parsed_order[CHOOSE f \in plain : ColumnOf(f) = c]
              [] OTHER ->
                    Num(LastItem(items, CHOOSE x \in codes : Mapped(x) /\ ColumnOf(x) = c).quantity)]

\* values().batchUpdate of the updates at target_row
BatchWrite(sheet, target_row, updates) ==
    [r \in (DOMAIN sheet) \cup {target_row} |->
        IF r = target_row
        THEN [c \in (DOMAIN RowOf(sheet, r)) \cup (DOMAIN updates) |->
                 IF c \in DOMAIN updates THEN updates[c] ELSE sheet[r][c]]
        ELSE sheet[r]]

\* the parsed orders given to insert_order: what _parse_with_regex returns
\* for "Maria Santos" / "2 pouch cheese", the tub scenario, "gcash" and
\* "Maria Santos" / "0 pouch cheese"
InsertMessages == {<<1, 2>>, <<1, 12, 8, 13>>, <<8>>, <<1, 3>>}
Orders == {ParseWithRegex(m).result : m \in {x \in InsertMessages : ~ParseWithRegex(x).raised}}

\* the worksheets the inserts start from: orders in the first rows, up to
\* MaxPrefilled of them, and an order at the fallback row or none
Worksheets == {[first |-> n, fallback |-> b] : n \in 0..MaxPrefilled, b \in BOOLEAN}

StartSheet(w) ==
    [r \in (FirstRow..(FirstRow + w.first - 1))
              \cup (IF w.fallback THEN {FallbackRow} ELSE {}) |->
        Updates(ParseWithRegex(<<1, 2>>).result)]

(***************************************************************************)
(* OrderParser.parse_order as a state machine                              *)
(***************************************************************************)
VARIABLES
    message,     \* the argument of parse_order
    oracle,      \* how the oracle behaves during this call
    pc,          \* where the call is
    json_text,   \* json_text of _parse_with_claude
    result,      \* result of the running strategy; at "done", the return value
    lines,       \* lines of _parse_with_regex
    idx,         \* the index of the next line of the loop
    outcome,     \* "running", "returned" or "raised"
    strategy,    \* the strategy that returned: "none", "claude" or "regex"
    calls,       \* the number of messages.create calls so far
    sheet,         \* the ORDER worksheet: row -> column -> value
    insert_pc,     \* where each insert_order call is: "find", "update", "done"
    parsed_order,  \* the argument of each insert_order call
    target_row,    \* target_row of each insert_order call
    inserted,      \* what each call returned: "running", "True" or "False"
    was_empty      \* whether target_row was empty when the call wrote it

parser_vars == <<message, oracle, pc, json_text, result, lines, idx, outcome, strategy, calls>>
sheet_vars == <<sheet, insert_pc, parsed_order, target_row, inserted, was_empty>>
vars == <<parser_vars, sheet_vars>>

Inserts == 1..MaxInserts

\* no insert_order call is running: parse_order is looked at alone
NoInserts ==
    /\ sheet = StartSheet([first |-> 0, fallback |-> FALSE])
    /\ insert_pc = [p \in Inserts |-> "done"]
    /\ parsed_order = [p \in Inserts |-> InitialResult]
    /\ target_row = [p \in Inserts |-> 0]
    /\ inserted = [p \in Inserts |-> "False"]
    /\ was_empty = [p \in Inserts |-> TRUE]

Init ==
    /\ \/ message \in Messages /\ oracle \in MessageOracles
       \/ message \in OracleMessages /\ oracle \in TextOracles
    /\ pc = "start"
    /\ json_text = <<>>
    /\ result = None
    /\ lines = <<>>
    /\ idx = 0
    /\ outcome = "running"
    /\ strategy = "none"
    /\ calls = 0
    /\ NoInserts

\* EnterRegex as it would be if the list comprehension of _parse_with_regex
\* lost its `if line.strip()` filter: blank lines stay in lines
EnterRegexKeepingBlankLines ==
    /\ pc' = "regex"
    /\ result' = InitialResult
    /\ lines' = message
    /\ idx' = 1

\* control reaches `return self._parse_with_regex(message)`: the function's
\* first two statements
EnterRegex ==
    /\ pc' = "regex"
    /\ result' = InitialResult
    /\ lines' = LinesOf(message)
    /\ idx' = 1

\* parse_order: `if self.anthropic_client:`
ParseOrder ==
    /\ pc = "start"
    /\ \/ /\ oracle.kind # "absent"
          /\ pc' = "call"
          /\ UNCHANGED <<result, lines, idx>>
       \/ /\ oracle.kind = "absent"
          /\ EnterRegex
    /\ UNCHANGED <<message, oracle, json_text, outcome, strategy, calls, sheet_vars>>

\* CallOracle as it would be if a failed messages.create were tried a second
\* time before giving up
CallOracleRetrying ==
    /\ pc = "call"
    /\ calls' = calls + 1
    /\ \/ /\ oracle.kind = "text"
          /\ json_text' = StripText(oracle.text)
          /\ pc' = "decode"
          /\ UNCHANGED <<result, lines, idx>>
       \/ /\ oracle.kind = "raises"
          /\ calls = 0
          /\ UNCHANGED <<pc, result, lines, idx, json_text>>
       \/ /\ oracle.kind = "raises"
          /\ calls > 0
          /\ EnterRegex
          /\ UNCHANGED json_text
    /\ UNCHANGED <<message, oracle, outcome, strategy, sheet_vars>>

\* _parse_with_claude up to `json_text = response.content[0].text.strip()`
CallOracle ==
    /\ pc = "call"
    /\ calls' = calls + 1
    /\ \/ /\ oracle.kind = "text"
          /\ json_text' = StripText(oracle.text)
          /\ pc' = "decode"
          /\ UNCHANGED <<result, lines, idx>>
       \/ /\ oracle.kind = "raises"
          /\ EnterRegex
          /\ UNCHANGED json_text
    /\ UNCHANGED <<message, oracle, outcome, strategy, sheet_vars>>

\* the fence stripping and json.loads
Decode ==
    /\ pc = "decode"
    /\ json_text' = StripFences(json_text)
    /\ \/ /\ Decodes(json_text')
          /\ result' = oracle.value
          /\ pc' = "validate"
          /\ UNCHANGED <<lines, idx>>
       \/ /\ ~Decodes(json_text')
          /\ EnterRegex
    /\ UNCHANGED <<message, oracle, outcome, strategy, calls, sheet_vars>>

\* `return self._validate_and_process(result)`
Validate ==
    /\ pc = "validate"
    /\ LET r == ValidateAndProcess(result)
       IN  \/ /\ ~r.raised
              /\ result' = r.result
              /\ pc' = "done"
              /\ outcome' = "returned"
              /\ strategy' = "claude"
              /\ UNCHANGED <<lines, idx>>
           \/ /\ r.raised
              /\ EnterRegex
              /\ UNCHANGED <<outcome, strategy>>
    /\ UNCHANGED <<message, oracle, json_text, calls, sheet_vars>>

\* one turn of `for line in lines`
RegexLine ==
    /\ pc = "regex"
    /\ idx <= Len(lines)
    /\ result' = LineStep(result, Facts[lines[idx]])
    /\ idx' = idx + 1
    /\ UNCHANGED <<message, oracle, pc, json_text, lines, outcome, strategy, calls, sheet_vars>>

\* the statements after the loop; an exception here leaves parse_order
RegexReturn ==
    /\ pc = "regex"
    /\ idx > Len(lines)
    /\ LET r == RegexFinish(result)
       IN  \/ /\ ~r.raised
              /\ result' = r.result
              /\ outcome' = "returned"
              /\ strategy' = "regex"
           \/ /\ r.raised
              /\ outcome' = "raised"
              /\ UNCHANGED <<result, strategy>>
    /\ pc' = "done"
    /\ UNCHANGED <<message, oracle, json_text, lines, idx, calls, sheet_vars>>

Next ==
    \/ ParseOrder
    \/ CallOracle
    \/ Decode
    \/ Validate
    \/ RegexLine
    \/ RegexReturn

Spec == Init /\ [][Next]_vars

(***************************************************************************)
(* GoogleSheetsClient.insert_order, several calls interleaved              *)
(***************************************************************************)
\* no parse_order call is running: the inserts are looked at alone
ParserIdle ==
    /\ message = <<>>
    /\ oracle = NoClient
    /\ pc = "idle"
    /\ json_text = <<>>
    /\ result = None
    /\ lines = <<>>
    /\ idx = 0
    /\ outcome = "running"
    /\ strategy = "none"
    /\ calls = 0

SheetInit ==
    /\ ParserIdle
    /\ \E w \in Worksheets : sheet = StartSheet(w)
    /\ insert_pc = [p \in Inserts |-> "find"]
    /\ parsed_order \in [Inserts -> Orders]
    /\ target_row = [p \in Inserts |-> 0]
    /\ inserted = [p \in Inserts |-> "running"]
    /\ was_empty = [p \in Inserts |-> TRUE]

\* target_row = self.find_first_empty_row(worksheet_name): the values().get
\* request and the scan, or the row of the except branch when the request
\* raises
FindFirstEmptyRow(p) ==
    /\ insert_pc[p] = "find"
    /\ \/ target_row' = [target_row EXCEPT ![p] = ScanRows(Values(sheet))]
       \/ target_row' = [target_row EXCEPT ![p] = FallbackRow]
    /\ insert_pc' = [insert_pc EXCEPT ![p] = "update"]
    /\ UNCHANGED <<sheet, parsed_order, inserted, was_empty, parser_vars>>

\* the rest of insert_order: the updates, the values().batchUpdate request
\* and `return True`, or `return False` when the request raises
BatchUpdate(p) ==
    /\ insert_pc[p] = "update"
    /\ \/ /\ sheet' = BatchWrite(sheet, target_row[p], Updates(parsed_order[p]))
          /\ was_empty' =
                [was_empty EXCEPT ![p] = IsEmptyRow(RowData(RowOf(sheet, target_row[p])))]
          /\ inserted' = [inserted EXCEPT ![p] = "True"]
       \/ /\ inserted' = [inserted EXCEPT ![p] = "False"]
          /\ UNCHANGED <<sheet, was_empty>>
    /\ insert_pc' = [insert_pc EXCEPT ![p] = "done"]
    /\ UNCHANGED <<parsed_order, target_row, parser_vars>>

SheetNext ==
    \E p \in Inserts :
        \/ FindFirstEmptyRow(p)
        \/ BatchUpdate(p)

SheetSpec == SheetInit /\ [][SheetNext]_vars

(***************************************************************************)
(* Properties of parse_order                                               *)
(***************************************************************************)
\* parse_order has returned a record
Returned == pc = "done" /\ outcome = "returned"

\* the oracle answered with a text that json.loads rejects
Undecodable == oracle.kind = "text" /\ ~Decodes(StripFences(StripText(oracle.text)))

\* no client is configured, the call raises, or the response does not decode
FallbackCase == oracle.kind \in {"absent", "raises"} \/ Undecodable

\* the fields of an order record
Fields ==
    {"customer_name", "payment_method", "customer_location", "payment_status",
     "discount_percentage", "discount_amount", "shipping_fee", "items",
     "confidence", "notes"}

\* both discount fields of record r are populated (non-null)
BothDiscounts(r) ==
    ~IsNone(Get(r, "discount_percentage")) /\ ~IsNone(Get(r, "discount_amount"))

\* the lines of the message on which the shipping pattern captures a fee
ShippingLines ==
    {k \in DOMAIN LinesOf(message) : ~IsNone(Facts[LinesOf(message)[k]].shipping_fee)}

\* no line of the message captures a peso discount
NoPesoLine ==
    \A k \in DOMAIN LinesOf(message) : IsNone(Facts[LinesOf(message)[k]].discount_amount)

\* C1: for every message and every behaviour of the oracle, parse_order
\* ends by returning a record and never lets an exception reach its caller.
C1_NeverRaises == pc = "done" => outcome = "returned"

\* C2: when no client is configured, when the oracle call raises, or when
\* the response does not decode as JSON, parse_order ends as
\* _parse_with_regex ends on the same message: it returns a record equal to
\* the one _parse_with_regex returns (and raises where that raises).
C2_FallbackIsRegex ==
    (pc = "done" /\ FallbackCase) =>
        IF ParseWithRegex(message).raised
        THEN outcome = "raised"
        ELSE outcome = "returned" /\ result = ParseWithRegex(message).result

\* a call whose oracle answered with an undecodable text has returned the
\* deterministic record, with a name and an item in it
C2_FallbackReached ==
    /\ Returned
    /\ Undecodable
    /\ calls = 1
    /\ strategy = "regex"
    /\ Truthy(result.customer_name)
    /\ Truthy(result.items)

\* C3: in every record parse_order returns, on either path,
\* discount_percentage and discount_amount are never both populated.
C3_DiscountsExclusive == Returned => ~BothDiscounts(result)

\* C4: after one pass of _validate_and_process the two discount fields are
\* not both populated, and when both were populated on entry the percentage
\* is cleared and the amount is the one given; also when the amount is 0.
C4_NormalizerExclusive ==
    (Returned /\ strategy = "claude") =>
        /\ ~BothDiscounts(result)
        /\ BothDiscounts(oracle.value) =>
              /\ IsNone(Get(result, "discount_percentage"))
              /\ Get(result, "discount_amount") = Get(oracle.value, "discount_amount")

\* C5: every item of every returned record has a catalog product code and
\* a quantity of at least 1.
C5_CatalogClosure ==
    Returned =>
        /\ Get(result, "items").t = "list"
        /\ \A i \in DOMAIN Get(result, "items").v : ValidItem(Get(result, "items").v[i])

\* C6: _validate_and_process applied to its own output returns that output
\* unchanged, in every field.
C6_NormalizerIdempotent ==
    (Returned /\ strategy = "claude") =>
        ValidateAndProcess(result) = [raised |-> FALSE, result |-> result]

\* C7: on the deterministic path the message "Maria Santos" / "2 tub cheese"
\* / "gcash" / "qc" yields the name Maria Santos, exactly one item
\* {2L-CHZ, 2}, payment method Gcash, location Quezon City, status Unpaid.
C7_TubScenario ==
    (Returned /\ strategy = "regex" /\ message = <<1, 12, 8, 13>>) =>
        /\ result.customer_name = Str(<<"M","a","r","i","a"," ","S","a","n","t","o","s">>)
        /\ result.items = List(<<[product_code |-> "2L-CHZ", quantity |-> 2]>>)
        /\ result.payment_method = Str("Gcash")
        /\ result.customer_location = Str("Quezon City")
        /\ result.payment_status = Str("Unpaid")

\* C8: on the deterministic path, when a percentage p was captured and no
\* peso amount, discount_amount = floor(subtotal * p / 100) over the
\* extracted items (0 when there are none); "2 pouch cheese" followed by
\* "discount 10%" gives discount_percentage 10 and discount_amount 30.
C8_PercentageDiscount ==
    (Returned /\ strategy = "regex") =>
        /\ (result.discount_percentage.t = "num" /\ NoPesoLine) =>
              result.discount_amount =
                  Num((SubtotalOf(result.items.v, DOMAIN result.items.v)
                          * result.discount_percentage.v) \div 100)
        /\ message = <<1, 2, 4>> =>
              /\ result.discount_percentage = Num(10)
              /\ result.discount_amount = Num(30)

\* C9: on the deterministic path the shipping fee is the integer captured
\* on the first line that has a shipping keyword followed by digits,
\* whatever the position of that line, and no later line replaces it.
C9_FirstShippingLine ==
    (Returned /\ strategy = "regex" /\ ShippingLines # {}) =>
        result.shipping_fee = Facts[LinesOf(message)[Min(ShippingLines)]].shipping_fee

\* C10: every returned record carries all ten fields, with payment_status
\* Paid or Unpaid, payment_method null or one of the six methods,
\* customer_location null or one of the two cities, and items a sequence.
C10_WellFormed ==
    Returned =>
        /\ IsDict(result)
        /\ Fields \subseteq DOMAIN result
        /\ result["payment_status"] \in {Str("Paid"), Str("Unpaid")}
        /\ result["payment_method"] \in
              {None, Str("Gcash"), Str("BPI"), Str("Maya"), Str("Cash"), Str("BDO"),
               Str("Others")}
        /\ result["customer_location"] \in {None, Str("Quezon City"), Str("Paranaque")}
        /\ result["items"].t = "list"

\* the AI-assisted path was attempted and an exception left it: in the
\* oracle call, in json.loads or in _validate_and_process
AiRaises ==
    \/ oracle.kind = "raises"
    \/ Undecodable
    \/ /\ oracle.kind = "text"
       /\ ~Undecodable
       /\ ValidateAndProcess(oracle.value).raised

\* C11: in one call of parse_order the oracle is called at most once, and
\* not at all without a client; the deterministic strategy runs exactly
\* when the AI-assisted path was not attempted or raised; and the returned
\* record is the work of one strategy alone: the normalized oracle value,
\* or the record _parse_with_regex builds from the message.
C11_OneStrategy ==
    /\ calls <= 1
    /\ oracle.kind = "absent" => calls = 0
    /\ (pc = "done" /\ oracle.kind # "absent") => calls = 1
    /\ pc = "regex" => (oracle.kind = "absent" \/ AiRaises)
    /\ pc = "done" => ((strategy # "claude") <=> (oracle.kind = "absent" \/ AiRaises))
    /\ (pc = "done" /\ strategy = "claude") =>
          /\ outcome = "returned"
          /\ result = ValidateAndProcess(oracle.value).result
          /\ lines = <<>>
          /\ idx = 0
    /\ (Returned /\ strategy = "regex") => result = ParseWithRegex(message).result

\* the oracle's value made _validate_and_process raise, and the fallback
\* has returned a record whose name comes from the message
C11_NormalizerFailedOver ==
    /\ Returned
    /\ oracle.kind = "text"
    /\ ~Undecodable
    /\ calls = 1
    /\ strategy = "regex"
    /\ "customer_name" \in DOMAIN oracle.value
    /\ Truthy(result.customer_name)

\* line_lower after the phone numbers are removed, for every line
PhoneFree == [id \in DOMAIN RawLines |-> RemoveAll(PhonePattern, Lower(Stripped[id]))]

\* the items the first pattern family appends for a line
FirstFamily == [id \in DOMAIN RawLines |-> ItemsOfPattern(ItemPattern1, PhoneFree[id])]

\* the items of all the matches that give a catalog product, in match order
AllProducts(line_lower, ms) ==
    LET cands == [k \in DOMAIN ms |-> ItemOfGroups(line_lower, ms[k])]
        good == SelectSeq(cands, LAMBDA c : c.ok)
    IN  [k \in DOMAIN good |-> good[k].item]

\* what an uncapped second pattern family would append for a line
SecondFamilyAll ==
    [id \in DOMAIN RawLines |->
        AllProducts(PhoneFree[id], Matches(ItemPattern2, 3, PhoneFree[id], 1))]

\* a turn of `for line in lines` that does not take the line as the name
ExtractionTurn ==
    /\ pc = "regex"
    /\ idx <= Len(lines)
    /\ idx' = idx + 1
    /\ ~(~Truthy(result.customer_name) /\ Facts[lines[idx]].name_like)

\* C12: a line on which the first pattern family produces an item adds
\* exactly that one item to items; the second family adds nothing for it.
C12_SecondFamilyIsFallback ==
    [][(ExtractionTurn /\ FirstFamily[lines[idx]] # <<>>) =>
          result'.items.v = result.items.v \o FirstFamily[lines[idx]]]_vars

\* C13: per line the first pattern family appends at most one item and the
\* second family appends the items of all its matches that resolve to a
\* catalog product, in match order.
C13_SecondFamilyUncapped ==
    [][ExtractionTurn =>
          /\ Len(FirstFamily[lines[idx]]) <= 1
          /\ result'.items.v =
                result.items.v \o FirstFamily[lines[idx]] \o SecondFamilyAll[lines[idx]]]_vars

\* the i-th line of the loop is the first one with at most 3 words and none
\* of pouch, tub, gcash, bpi, maya
NameLine(i) ==
    /\ i \in DOMAIN lines
    /\ Facts[lines[i]].name_like
    /\ \A j \in 1..(i - 1) : ~Facts[lines[j]].name_like

\* a turn of `for line in lines`
LoopTurn == pc = "regex" /\ idx <= Len(lines) /\ idx' = idx + 1

\* C14: in the line loop of _parse_with_regex the first line with at most
\* 3 words and none of pouch, tub, gcash, bpi, maya sets customer_name to
\* its title-cased text and changes no other field; no other line changes
\* customer_name, and once set it is never overwritten.
C14_NameSetOnce ==
    [][/\ (LoopTurn /\ NameLine(idx)) =>
              /\ ~Truthy(result.customer_name)
              /\ result' = [result EXCEPT
                               !.customer_name = Str(Title(Stripped[lines[idx]]))]
       /\ (LoopTurn /\ ~NameLine(idx)) => result'.customer_name = result.customer_name
       /\ (pc = "regex" /\ Truthy(result.customer_name)) =>
              /\ result'.customer_name = result.customer_name
              /\ \E i \in 1..(idx - 1) :
                    NameLine(i) /\ result.customer_name = Str(Title(Stripped[lines[i]]))
      ]_vars

\* the name came from a line that is not the first of the loop, a later
\* line that also looks like a name was read for its own fields, and the
\* name is still the earlier line's
C14_LaterLineKeepsName ==
    /\ Returned
    /\ strategy = "regex"
    /\ \E i \in 2..Len(lines) :
          /\ NameLine(i)
          /\ result.customer_name = Str(Title(Stripped[lines[i]]))
          /\ \E j \in (i + 1)..Len(lines) :
                /\ Facts[lines[j]].name_like
                /\ ~IsNone(Facts[lines[j]].discount_percentage)
                /\ result.discount_percentage = Facts[lines[j]].discount_percentage

(***************************************************************************)
(* Properties of insert_order                                              *)
(***************************************************************************)
\* C15: every insert_order call that wrote its order wrote it to a row that
\* was empty by the rule of find_first_empty_row when it wrote, and no two
\* calls wrote to the same row.
C15_DistinctEmptyRows ==
    \A p \in Inserts :
        inserted[p] = "True" =>
            /\ was_empty[p]
            /\ \A q \in Inserts \ {p} :
                  inserted[q] = "True" => target_row[q] # target_row[p]

=============================================================================
